---- MODULE Spec2Model ----
(***************************************************************************)
(* Model of @wishdoor/server-utils: stateless helpers for pagination and   *)
(* object filtering.  Every exported function is a pure transformation, so *)
(* the state is the last call made: which function (op), its arguments     *)
(* (args) and what it returned (ret).  One action per exported function.    *)
(*                                                                         *)
(* Optional properties (query.page, options.removeNull, ...) are modelled  *)
(* as records whose DOMAIN may or may not hold the field, so that `??` and *)
(* destructuring defaults are computed as the code computes them.          *)
(***************************************************************************)
EXTENDS Integers, Sequences, FiniteSets, TLC

VARIABLES op, args, ret

vars == <<op, args, ret>>

(***************************** bounds **************************************)
MaxPages == 9          \* totalPages / currentPage given to generatePageNumbers
MaxVisible == 7        \* maxVisible given to generatePageNumbers
MaxTotal == 12         \* total given to generatePagination
MaxPage == 4           \* page given to generatePagination / paginateArray
MaxLimitArg == 4       \* limit given to generatePagination / paginateArray
MaxLen == 4            \* length of the array given to paginateArray
MaxQueryPage == 3      \* largest query.page given to generateWhereClause
MaxQueryLimit == 4     \* largest small query.limit given to generateWhereClause

(***************************** helpers *************************************)
Max(a, b) == IF a >= b THEN a ELSE b

Min(a, b) == IF a <= b THEN a ELSE b

\* the empty object {}
EmptyRec == <<>>

Has(rec, f) == f \in DOMAIN rec

\* rec.f ?? dflt
Coalesce(rec, f, dflt) == IF Has(rec, f) THEN rec[f] ELSE dflt

\* { ...base, ...over }
Spread(base, over) == over @@ base

\* Math.ceil(a / b) for integers a >= 0, b >= 1
MathCeilDiv_Floor(a, b) == a \div b

MathCeilDiv(a, b) == IF a % b = 0 THEN a \div b ELSE (a \div b) + 1

\* x || dflt for a number x (0 is falsy)
OrElse_NoFallback(x, dflt) == x

OrElse(x, dflt) == IF x = 0 THEN dflt ELSE x

(************************ pagination/types.ts ******************************)
DEFAULT_PAGINATION_CONFIG ==
  [defaultLimit |-> 20, maxLimit |-> 100, minLimit |-> 1, defaultPage |-> 1]

\* truthiness of an optional string property: absent and "" are falsy
TruthyStr(rec, f) == Has(rec, f) /\ rec[f] # ""

\* const page = Math.max(query.page ?? mergedConfig.defaultPage, 1)
PageOf_NoFloor(query, mergedConfig) ==
  Coalesce(query, "page", mergedConfig.defaultPage)

PageOf(query, mergedConfig) ==
  Max(Coalesce(query, "page", mergedConfig.defaultPage), 1)

\* const limit = Math.min(Math.max(query.limit ?? defaultLimit, minLimit), maxLimit)
LimitOf_NoFloor(query, mergedConfig) ==
  Min(Coalesce(query, "limit", mergedConfig.defaultLimit),
      mergedConfig.maxLimit)

LimitOf(query, mergedConfig) ==
  Min(Max(Coalesce(query, "limit", mergedConfig.defaultLimit),
          mergedConfig.minLimit),
      mergedConfig.maxLimit)

\* if (query.sortBy && query.sortOrder) ... else ...
OrderByOf_FieldByField(query, defaultSort) ==
  [k \in {IF TruthyStr(query, "sortBy") THEN query.sortBy ELSE defaultSort.key}
     |-> IF TruthyStr(query, "sortOrder") THEN query.sortOrder
         ELSE defaultSort.value]

OrderByOf(query, defaultSort) ==
  IF TruthyStr(query, "sortBy") /\ TruthyStr(query, "sortOrder")
  THEN [k \in {query.sortBy} |-> query.sortOrder]
  ELSE [k \in {defaultSort.key} |-> defaultSort.value]

generateWhereClause(query, defaultSort, defaultWhere, config) ==
  LET mergedConfig == Spread(DEFAULT_PAGINATION_CONFIG, config)
      page == PageOf(query, mergedConfig)
      limit == LimitOf(query, mergedConfig)
      skip == (page - 1) * limit
  IN [where |-> defaultWhere, orderBy |-> OrderByOf(query, defaultSort),
      page |-> page, skip |-> skip, limit |-> limit]

generatePagination_NextInclusive(total, page, limit) ==
  LET totalPages == OrElse(MathCeilDiv(total, limit), 1)
  IN [total |-> total, currentPage |-> page, pageSize |-> limit,
      totalPages |-> totalPages,
      hasNextPage |-> page <= totalPages,
      hasPreviousPage |-> page > 1]

generatePagination(total, page, limit) ==
  LET totalPages == OrElse(MathCeilDiv(total, limit), 1)
  IN [total |-> total, currentPage |-> page, pageSize |-> limit,
      totalPages |-> totalPages,
      hasNextPage |-> page < totalPages,
      hasPreviousPage |-> page > 1]

createPaginatedResponse(data, total, page, limit) ==
  [data |-> data, pagination |-> generatePagination(total, page, limit)]

\* Array.prototype.slice(start, end): relative indices, clamped to the length
SliceIndex(i, len) == IF i < 0 THEN Max(len + i, 0) ELSE Min(i, len)

ArraySlice(items, start, end) ==
  LET len == Len(items)
      k == SliceIndex(start, len)
      final == SliceIndex(end, len)
      count == Max(final - k, 0)
  IN [j \in 1..count |-> items[k + j]]

paginateArray_SkipOffByOne(items, page, limit) ==
  LET total == Len(items)
      skip == page * limit
      data == ArraySlice(items, skip, skip + limit)
  IN createPaginatedResponse(data, total, page, limit)

paginateArray(items, page, limit) ==
  LET total == Len(items)
      skip == (page - 1) * limit
      data == ArraySlice(items, skip, skip + limit)
  IN createPaginatedResponse(data, total, page, limit)

getDisplayRange_FromUnclamped(page, limit, total) ==
  [from |-> (page - 1) * limit + 1, to |-> Min(page * limit, total)]

getDisplayRange(page, limit, total) ==
  [from |-> Min((page - 1) * limit + 1, total), to |-> Min(page * limit, total)]

\* one slot of the page-number sequence: a page number or the "ellipsis" marker
PageSlot(i) == [ellipsis |-> FALSE, page |-> i]

EllipsisSlot == [ellipsis |-> TRUE, page |-> 0]

\* for (let i = lo; i <= hi; i++) pages.push(i)
RECURSIVE PushPages_Exclusive(_, _, _)
PushPages_Exclusive(pages, i, hi) ==
  IF i < hi THEN PushPages_Exclusive(Append(pages, PageSlot(i)), i + 1, hi)
  ELSE pages

RECURSIVE PushPages(_, _, _)
PushPages(pages, i, hi) ==
  IF i <= hi THEN PushPages(Append(pages, PageSlot(i)), i + 1, hi) ELSE pages

DefaultMaxVisible == 5

generatePageNumbers_NearEndStrict(currentPage, totalPages, maxVisible) ==
  IF totalPages <= maxVisible
  THEN [i \in 1..totalPages |-> PageSlot(i)]
  ELSE LET halfVisible == (maxVisible - 3) \div 2
           first == <<PageSlot(1)>>
           body ==
             IF currentPage <= halfVisible + 2
             THEN Append(PushPages(first, 2, maxVisible - 2), EllipsisSlot)
             ELSE IF currentPage > totalPages - halfVisible - 1
             THEN PushPages(Append(first, EllipsisSlot),
                            totalPages - maxVisible + 3, totalPages - 1)
             ELSE Append(PushPages(Append(first, EllipsisSlot),
                                   currentPage - halfVisible,
                                   currentPage + halfVisible),
                         EllipsisSlot)
       IN Append(body, PageSlot(totalPages))

generatePageNumbers(currentPage, totalPages, maxVisible) ==
  IF totalPages <= maxVisible
  THEN [i \in 1..totalPages |-> PageSlot(i)]
  ELSE LET halfVisible == (maxVisible - 3) \div 2
           first == <<PageSlot(1)>>
           body ==
             IF currentPage <= halfVisible + 2
             THEN Append(PushPages(first, 2, maxVisible - 2), EllipsisSlot)
             ELSE IF currentPage >= totalPages - halfVisible - 1
             THEN PushPages(Append(first, EllipsisSlot),
                            totalPages - maxVisible + 3, totalPages - 1)
             ELSE Append(PushPages(Append(first, EllipsisSlot),
                                   currentPage - halfVisible,
                                   currentPage + halfVisible),
                         EllipsisSlot)
       IN Append(body, PageSlot(totalPages))

(*************************** utils/sanitize.ts *****************************)
\* the values an object property can hold, as far as the removal tests tell
\* them apart: undefined, null, "", 0, NaN, and a value none of them matches
VUndefined == "undefined"

VNull == "null"

VEmptyString == "''"

VZero == "0"

VNaN == "NaN"

VOne == "1"

Values == {VUndefined, VNull, VEmptyString, VZero, VNaN, VOne}

\* const { removeUndefined = true, removeNull = false, ... } = options ?? {}
SanitizeDefaults ==
  [removeUndefined |-> TRUE, removeNull |-> FALSE, removeEmptyString |-> FALSE,
   removeZero |-> FALSE, removeNaN |-> FALSE, excludeKeys |-> {},
   includeKeys |-> {}]

DestructureOptions(options) == Spread(SanitizeDefaults, options)

\* the five "Check conditions for removal" tests of one value
Removed(o, value) ==
  \/ o.removeUndefined /\ value = VUndefined
  \/ o.removeNull /\ value = VNull
  \/ o.removeEmptyString /\ value = VEmptyString
  \/ o.removeZero /\ value = VZero
  \/ o.removeNaN /\ value = VNaN

\* one iteration of the for..in loop: is result[key] assigned?
SanitizeKeeps_NoExclude(o, key, value) ==
  IF o.includeKeys # {} /\ key \notin o.includeKeys THEN TRUE
  ELSE ~Removed(o, value)

SanitizeKeeps(o, key, value) ==
  IF o.excludeKeys # {} /\ key \in o.excludeKeys THEN TRUE
  ELSE IF o.includeKeys # {} /\ key \notin o.includeKeys THEN TRUE
  ELSE ~Removed(o, value)

sanitizeObject(obj, options) ==
  LET o == DestructureOptions(options)
      kept == {key \in DOMAIN obj : SanitizeKeeps(o, key, obj[key])}
  IN [key \in kept |-> obj[key]]

\* the keys a key list names
KeySet(keys) == {keys[i] : i \in 1..Len(keys)}

\* for (const key of keys) if (hasOwnProperty(obj, key)) result[key] = obj[key]
pick(obj, keys) == [key \in KeySet(keys) \cap DOMAIN obj |-> obj[key]]

\* const result = { ...obj }; for (const key of keys) delete result[key]
omit_FirstKeyOnly(obj, keys) ==
  [key \in DOMAIN obj \ (IF keys = <<>> THEN {} ELSE {keys[1]}) |-> obj[key]]

omit(obj, keys) == [key \in DOMAIN obj \ KeySet(keys) |-> obj[key]]

(****************** utils: query strings and URLs **************************)
\* query parameter values (QueryParamValue and arrays of them), tagged with
\* their JavaScript type
Undefined == [t |-> "undefined"]

Null == [t |-> "null"]

Str(s) == [t |-> "string", s |-> s]

Num(n) == [t |-> "number", n |-> n]

Bool(b) == [t |-> "boolean", b |-> b]

Arr(items) == [t |-> "array", items |-> items]

\* value !== undefined && value !== null
NotNullish(value) == value.t \notin {"undefined", "null"}

\* Number.prototype.toString for the numbers of the model
NumberToString(n) ==
  CASE n = 0 -> "0" [] n = 1 -> "1" [] n = 7 -> "7" [] n = 10 -> "10"

\* value.toString() / String(value) of a string, number or boolean
ValueToString(value) ==
  CASE value.t = "string" -> value.s
    [] value.t = "number" -> NumberToString(value.n)
    [] value.t = "boolean" -> (IF value.b THEN "true" ELSE "false")

\* application/x-www-form-urlencoded serialisation of one character
FormEncodeChar(c) ==
  CASE c = " " -> "+"
    [] c = "&" -> "%26"
    [] c = "=" -> "%3D"
    [] OTHER -> c

RECURSIVE FormEncode(_)
FormEncode(str) ==
  IF str = "" THEN ""
  ELSE FormEncodeChar(SubSeq(str, 1, 1)) \o FormEncode(SubSeq(str, 2, Len(str)))

\* value.forEach(item => { if (item is not nullish) append(key, item.toString()) })
RECURSIVE AppendItems_KeepNullish(_, _, _)
AppendItems_KeepNullish(params, key, items) ==
  IF items = <<>> THEN params
  ELSE AppendItems_KeepNullish(
         IF Head(items).t = "undefined"
         THEN Append(params, <<key, "undefined">>)
         ELSE IF Head(items).t = "null"
         THEN Append(params, <<key, "null">>)
         ELSE Append(params, <<key, ValueToString(Head(items))>>),
         key, Tail(items))

RECURSIVE AppendItems(_, _, _)
AppendItems(params, key, items) ==
  IF items = <<>> THEN params
  ELSE AppendItems(IF NotNullish(Head(items))
                   THEN Append(params, <<key, ValueToString(Head(items))>>)
                   ELSE params,
                   key, Tail(items))

\* Object.entries(queryParams).forEach(([key, value]) => ...)
RECURSIVE AppendEntries(_, _)
AppendEntries(params, entries) ==
  IF entries = <<>> THEN params
  ELSE LET key == Head(entries)[1]
           value == Head(entries)[2]
           after == IF NotNullish(value)
                    THEN IF value.t = "array"
                         THEN AppendItems(params, key, value.items)
                         ELSE Append(params, <<key, ValueToString(value)>>)
                    ELSE params
       IN AppendEntries(after, Tail(entries))

\* URLSearchParams.prototype.toString
RECURSIVE SearchParamsToString(_)
SearchParamsToString(params) ==
  IF params = <<>> THEN ""
  ELSE LET pair == FormEncode(Head(params)[1]) \o "="
                     \o FormEncode(Head(params)[2])
       IN IF Len(params) = 1 THEN pair
          ELSE pair \o "&" \o SearchParamsToString(Tail(params))

\* queryParams is <<>> when the argument is left out, and otherwise
\* <<entries>>, entries being Object.entries(queryParams)
buildQueryString(queryParams) ==
  IF queryParams = <<>> THEN ""
  ELSE SearchParamsToString(AppendEntries(<<>>, queryParams[1]))

\* the outcome of a call that may throw
Returned(value) == [threw |-> FALSE, value |-> value]

Threw(message) == [threw |-> TRUE, message |-> message]

\* const base = baseUrl ?? ""; if (!base) throw ...; the environment is not
\* read anywhere in the function
generateUrl(path, queryParams, baseUrl) ==
  LET base == Coalesce(baseUrl, "baseUrl", "")
      queryString == buildQueryString(queryParams)
      pathWithQuery == IF queryString # "" THEN path \o "?" \o queryString
                       ELSE path
  IN IF base = ""
     THEN Threw("Base URL is required. Provide baseUrl parameter.")
     ELSE Returned(base \o pathWithQuery)

\* the 1-based index of the first occurrence of pattern in str, 0 if none
FirstIndexOf(str, pattern) ==
  LET hits == {i \in 1..(Len(str) - Len(pattern) + 1) :
                 SubSeq(str, i, i + Len(pattern) - 1) = pattern}
  IN IF hits = {} THEN 0 ELSE CHOOSE i \in hits : \A j \in hits : i <= j

\* String.prototype.replace(pattern, replacement) with a string pattern:
\* the first occurrence only (replacement holds no "$" here)
StringReplace(str, pattern, replacement) ==
  LET at == FirstIndexOf(str, pattern)
  IN IF at = 0 THEN str
     ELSE SubSeq(str, 1, at - 1) \o replacement
            \o SubSeq(str, at + Len(pattern), Len(str))

\* Object.entries(params).forEach(([key, value]) => resolvedPath = ...)
RECURSIVE ResolvePath(_, _)
ResolvePath(path, entries) ==
  IF entries = <<>> THEN path
  ELSE ResolvePath(StringReplace(path, ":" \o Head(entries)[1],
                                 ValueToString(Head(entries)[2])),
                   Tail(entries))

\* params is Object.entries(params)
buildUrl(path, params, queryParams, baseUrl) ==
  generateUrl(ResolvePath(path, params), queryParams, baseUrl)

(******************************* validation ********************************)
\* Array.prototype.join("."): the segments as strings with "." between them
RECURSIVE JoinDot(_)
JoinDot(path) ==
  IF path = <<>> THEN ""
  ELSE IF Len(path) = 1 THEN ValueToString(path[1])
  ELSE ValueToString(Head(path)) \o "." \o JoinDot(Tail(path))

\* error.errors.map(err => ({ field: err.path.join("."), message: err.message }))
parseZodError_FirstSegment(error) ==
  [i \in 1..Len(error.errors) |->
     [field |-> IF error.errors[i].path = <<>> THEN ""
                ELSE ValueToString(error.errors[i].path[1]),
      message |-> error.errors[i].message]]

parseZodError(error) ==
  [i \in 1..Len(error.errors) |->
     [field |-> JoinDot(error.errors[i].path),
      message |-> error.errors[i].message]]

\* the schema engine is outside the package: what safeParse / parseAsync
\* answers for the given data is an input of the call, either
\* [success |-> TRUE, data |-> parsed] or
\* [success |-> FALSE, error |-> [errors |-> issues]]
validate(result) ==
  IF result.success
  THEN Returned([success |-> TRUE, data |-> result.data])
  ELSE Returned([success |-> FALSE, errors |-> parseZodError(result.error)])

\* errors[0]?.message ?? "Validation failed"
FirstMessage(errors) ==
  IF errors = <<>> THEN "Validation failed" ELSE errors[1].message

ThrewError(error) == [threw |-> TRUE, error |-> error]

validateOrThrow(result) ==
  IF result.success THEN Returned(result.data)
  ELSE LET errors == parseZodError(result.error)
       IN ThrewError([message |-> FirstMessage(errors), errors |-> errors,
                      statusCode |-> 400])

\* new ValidationError(message, errors): statusCode defaults to 400
ValidationError(message, errors) ==
  [name |-> "ValidationError", message |-> message, statusCode |-> 400,
   code |-> "VALIDATION_ERROR", errors |-> errors]

\* if (shape[section]) dataToValidate[section] = req[section], three times
DataToValidate(shape, req) == [section \in shape |-> req[section]]

\* if (validated[section] !== undefined) req[section] = validated[section]
WriteBack_Always(req, validated) ==
  [section \in DOMAIN req |->
     IF Has(validated, section) THEN validated[section] ELSE req[section]]

WriteBack(req, validated) ==
  [section \in DOMAIN req |->
     IF Has(validated, section) /\ validated[section] # VUndefined
     THEN validated[section] ELSE req[section]]

\* one call of next: next() or next(error)
NextCall(argument) == [argument |-> argument]

NoArgument == [kind |-> "none"]

\* the catch block: an error with an errors array is taken for a ZodError
\* and wrapped, any other error is passed on as it is
CatchBlock(error) ==
  IF Has(error, "errors")
  THEN LET errors == parseZodError(error)
       IN NextCall([kind |-> "ValidationError",
                    error |-> ValidationError(FirstMessage(errors), errors)])
  ELSE NextCall([kind |-> "error", error |-> error])

\* One invocation of the middleware that validateMiddleware(schema)
\* returns.  shape is the set of sections the schema declares; engine is
\* what schema.parseAsync does with dataToValidate: it resolves
\* ([outcome |-> "resolved", validated |-> ...]) or rejects
\* ([outcome |-> "rejected", error |-> ...]); nextThrows says whether the
\* call next() of the try block throws.  The result is the request as the
\* invocation leaves it, what it handed to the engine, and the calls of
\* next it made, in order.
validateMiddleware(shape, req, engine, nextThrows) ==
  IF engine.outcome = "resolved"
  THEN LET written == WriteBack(req, engine.validated)
       IN [req |-> written, dataToValidate |-> DataToValidate(shape, req),
           nextCalls |-> IF nextThrows
                         THEN <<NextCall(NoArgument),
                                CatchBlock([message |-> "thrown by next"])>>
                         ELSE <<NextCall(NoArgument)>>]
  ELSE [req |-> req, dataToValidate |-> DataToValidate(shape, req),
        nextCalls |-> <<CatchBlock(engine.error)>>]

(***************************** inputs **************************************)
\* an optional property: absent, or present with one of the values
Opt(f, vals) == {EmptyRec} \cup {[k \in {f} |-> v] : v \in vals}

QueryLimits == (0..MaxQueryLimit) \cup {100, 101}

Queries ==
  {p @@ l @@ sb @@ so :
     p \in Opt("page", (-1)..MaxQueryPage),
     l \in Opt("limit", QueryLimits),
     sb \in Opt("sortBy", {"", "name"}),
     so \in Opt("sortOrder", {"asc", "desc"})}

DefaultSorts == {[key |-> "createdAt", value |-> "desc"]}

Configs ==
  {dl @@ mx @@ mn @@ dp :
     dl \in Opt("defaultLimit", {3}),
     mx \in Opt("maxLimit", {2, 50}),
     mn \in Opt("minLimit", {2, 150}),
     dp \in Opt("defaultPage", {0, 2})}

Elems == {"u", "v"}

RECURSIVE SeqsUpTo(_)
SeqsUpTo(n) ==
  IF n = 0 THEN {<<>>}
  ELSE LET shorter == SeqsUpTo(n - 1)
       IN shorter \cup {Append(s, e) : s \in {t \in shorter : Len(t) = n - 1},
                                       e \in Elems}

\* objects over two keys, plus the object of the documentation example
Keys == {"a", "b"}

SmallObjects == {x @@ y : x \in Opt("a", Values), y \in Opt("b", Values)}

DocObject ==
  [a |-> VOne, b |-> VNull, c |-> VEmptyString, d |-> VZero, e |-> VNaN,
   f |-> VUndefined]

Objects == SmallObjects \cup {DocObject}

\* options objects; a flag other than removeUndefined is given as true or
\* left out, a key list is given (possibly empty) or left out
SanitizeOptions ==
  {u @@ n @@ e @@ z @@ nan @@ ex @@ inc :
     u \in Opt("removeUndefined", {TRUE, FALSE}),
     n \in Opt("removeNull", {TRUE}),
     e \in Opt("removeEmptyString", {TRUE}),
     z \in Opt("removeZero", {TRUE}),
     nan \in Opt("removeNaN", {TRUE}),
     ex \in Opt("excludeKeys", SUBSET Keys \ {{}}),
     inc \in Opt("includeKeys", SUBSET Keys \ {{}})}

MaxKeyList == 2        \* length of the key list given to pick / omit

ListedKeys == {"a", "b", "c"}

RECURSIVE KeyListsUpTo(_)
KeyListsUpTo(n) ==
  IF n = 0 THEN {<<>>}
  ELSE LET shorter == KeyListsUpTo(n - 1)
       IN shorter \cup {Append(s, k) : s \in {t \in shorter : Len(t) = n - 1},
                                       k \in ListedKeys}

MaxArrayLen == 2       \* length of an array-valued query parameter

ItemValues == {Undefined, Null, Str("a b"), Num(1)}

ScalarValues == ItemValues \cup {Str(""), Bool(TRUE)}

RECURSIVE ItemListsUpTo(_)
ItemListsUpTo(n) ==
  IF n = 0 THEN {<<>>}
  ELSE LET shorter == ItemListsUpTo(n - 1)
       IN shorter \cup {Append(s, v) : s \in {t \in shorter : Len(t) = n - 1},
                                       v \in ItemValues}

ParamValues == ScalarValues \cup {Arr(items) : items \in ItemListsUpTo(MaxArrayLen)}

\* the entries of an object with keys among "tags" and "q", in either order
EntryLists ==
  {<<>>}
  \cup {<<<<k, v>>>> : k \in {"tags", "q"}, v \in ParamValues}
  \cup {<<<<"tags", v>>, <<"q", w>>>> : v \in ParamValues, w \in ParamValues}
  \cup {<<<<"q", v>>, <<"tags", w>>>> : v \in ParamValues, w \in ParamValues}

QueryParams == {<<>>} \cup {<<entries>> : entries \in EntryLists}

MaxSegments == 2       \* path segments of a template given to buildUrl

Segments == {"users", ":id", ":idx", ":org"}

RECURSIVE TemplatesUpTo(_)
\* path templates "/seg/seg..." of up to n segments
TemplatesUpTo(n) ==
  IF n = 0 THEN {""}
  ELSE LET shorter == TemplatesUpTo(n - 1)
       IN shorter \cup {t \o "/" \o seg : t \in shorter, seg \in Segments}

PathTemplates == TemplatesUpTo(MaxSegments) \ {""}

PathValues == {Str("7"), Num(10)}

\* the entries of a params object with keys among id and idx, either order
PathParams ==
  {<<>>}
  \cup {<<<<k, v>>>> : k \in {"id", "idx"}, v \in PathValues}
  \cup {<<<<"id", v>>, <<"idx", w>>>> : v \in PathValues, w \in PathValues}
  \cup {<<<<"idx", v>>, <<"id", w>>>> : v \in PathValues, w \in PathValues}

UrlQueryParams ==
  {<<>>, <<<<>>>>, << << <<"q", Null>> >> >>,
   << << <<"q", Str("a b")>>, <<"tags", Arr(<<Num(1), Num(0)>>)>> >> >>}

BaseUrls == Opt("baseUrl", {"", "https://custom-api.com"})

\* process.env.API_URL: unset or set
Environments == Opt("API_URL", {"https://api.example.com"})

MaxIssues == 2         \* issues in one schema-engine error
\* issue paths: the input itself, a field, an array element, a field of one
Paths ==
  {<<>>, <<Str("email")>>, <<Str("items"), Num(0)>>,
   <<Str("items"), Num(0), Str("name")>>}

Issues ==
  {[path |-> path, message |-> message] :
     path \in Paths, message \in {"Invalid email", "Required"}}

RECURSIVE IssueListsUpTo(_)
IssueListsUpTo(n) ==
  IF n = 0 THEN {<<>>}
  ELSE LET shorter == IssueListsUpTo(n - 1)
       IN shorter \cup {Append(s, issue) : s \in {t \in shorter : Len(t) = n - 1},
                                           issue \in Issues}

\* what the engine can answer: accepted with its (possibly coerced) output,
\* or rejected with its error list
EngineResults ==
  {[success |-> TRUE, data |-> data] : data \in {"as given", "coerced"}}
  \cup {[success |-> FALSE, error |-> [errors |-> issues]] :
          issues \in IssueListsUpTo(MaxIssues)}

Shapes == SUBSET {"body", "query", "params"}

\* the request as it arrives
Requests ==
  {[body |-> b, query |-> "query as sent", params |-> "params as sent"] :
     b \in {"body as sent", VUndefined}}

\* the parsed output of a schema with the given shape: one value per
\* declared section, which may be undefined (an optional section, a
\* transform), and no other key
ValidatedOutputs(shape) ==
  [shape -> {"validated", VUndefined}]

\* parseAsync resolves with the parsed output, rejects with a ZodError, or
\* rejects with whatever an asynchronous refinement threw
EngineOutcomes(shape) ==
  {[outcome |-> "resolved", validated |-> validated] :
     validated \in ValidatedOutputs(shape)}
  \cup {[outcome |-> "rejected", error |-> [errors |-> issues]] :
          issues \in IssueListsUpTo(MaxIssues) \ {<<>>}}
  \cup {[outcome |-> "rejected", error |-> [message |-> "refinement failed"]]}

(***************************** actions *************************************)
\* The functions share no state, so a behaviour is one call: the caller picks
\* a function and its arguments, the function returns, and nothing of the
\* call survives it.
Idle == op = "none"

Init ==
  /\ op = "none"
  /\ args = EmptyRec
  /\ ret = EmptyRec

CallGenerateWhereClause ==
  /\ Idle
  /\ \E query \in Queries, defaultSort \in DefaultSorts, config \in Configs :
    /\ op' = "generateWhereClause"
    /\ args' = [query |-> query, defaultSort |-> defaultSort,
                defaultWhere |-> [status |-> "ACTIVE"], config |-> config]
    /\ ret' = generateWhereClause(query, defaultSort,
                                  [status |-> "ACTIVE"], config)

CallGeneratePagination ==
  /\ Idle
  /\ \E total \in 0..MaxTotal, page \in 1..MaxPage, limit \in 1..MaxLimitArg :
    /\ op' = "generatePagination"
    /\ args' = [total |-> total, page |-> page, limit |-> limit]
    /\ ret' = generatePagination(total, page, limit)

CallPaginateArray ==
  /\ Idle
  /\ \E items \in SeqsUpTo(MaxLen), page \in 1..MaxPage, limit \in 1..MaxLimitArg :
    /\ op' = "paginateArray"
    /\ args' = [items |-> items, page |-> page, limit |-> limit]
    /\ ret' = paginateArray(items, page, limit)

CallGeneratePageNumbers ==
  /\ Idle
  /\ \E currentPage \in 1..MaxPages, totalPages \in 1..MaxPages,
        mv \in Opt("maxVisible", 0..MaxVisible) :
    /\ op' = "generatePageNumbers"
    /\ args' = [currentPage |-> currentPage, totalPages |-> totalPages] @@ mv
    /\ ret' = generatePageNumbers(currentPage, totalPages,
                                  Coalesce(mv, "maxVisible", DefaultMaxVisible))

\* objAfter is the argument object as the call leaves it: sanitizeObject
\* assigns only to its local result
CallSanitizeObject ==
  /\ Idle
  /\ \E obj \in Objects, options \in SanitizeOptions :
    /\ op' = "sanitizeObject"
    /\ args' = [obj |-> obj, options |-> options]
    /\ ret' = [result |-> sanitizeObject(obj, options), objAfter |-> obj]

\* pick reads obj and assigns to its local result only
CallPick ==
  /\ Idle
  /\ \E obj \in Objects, keys \in KeyListsUpTo(MaxKeyList) :
    /\ op' = "pick"
    /\ args' = [obj |-> obj, keys |-> keys]
    /\ ret' = [result |-> pick(obj, keys), objAfter |-> obj]

\* omit deletes from its spread copy, never from obj
CallOmit ==
  /\ Idle
  /\ \E obj \in Objects, keys \in KeyListsUpTo(MaxKeyList) :
    /\ op' = "omit"
    /\ args' = [obj |-> obj, keys |-> keys]
    /\ ret' = [result |-> omit(obj, keys), objAfter |-> obj]

CallGetDisplayRange ==
  /\ Idle
  /\ \E page \in 1..MaxPage, limit \in 1..MaxLimitArg, total \in 0..MaxTotal :
    /\ op' = "getDisplayRange"
    /\ args' = [page |-> page, limit |-> limit, total |-> total]
    /\ ret' = getDisplayRange(page, limit, total)

CallBuildQueryString ==
  /\ Idle
  /\ \E queryParams \in QueryParams :
    /\ op' = "buildQueryString"
    /\ args' = [queryParams |-> queryParams]
    /\ ret' = Returned(buildQueryString(queryParams))

\* env is the process environment the call runs in
CallGenerateUrl ==
  /\ Idle
  /\ \E path \in {"/users"}, queryParams \in UrlQueryParams,
        baseUrl \in BaseUrls, env \in Environments :
    /\ op' = "generateUrl"
    /\ args' = [path |-> path, queryParams |-> queryParams, env |-> env]
                 @@ baseUrl
    /\ ret' = generateUrl(path, queryParams, baseUrl)

CallBuildUrl ==
  /\ Idle
  /\ \E path \in PathTemplates, params \in PathParams,
        queryParams \in {<<>>, << << <<"active", Bool(TRUE)>> >> >>},
        baseUrl \in BaseUrls :
    /\ op' = "buildUrl"
    /\ args' = [path |-> path, params |-> params, queryParams |-> queryParams]
                 @@ baseUrl
    /\ ret' = buildUrl(path, params, queryParams, baseUrl)

CallValidate ==
  /\ Idle
  /\ \E result \in EngineResults :
    /\ op' = "validate"
    /\ args' = [data |-> "as given", engine |-> result]
    /\ ret' = validate(result)

CallValidateOrThrow ==
  /\ Idle
  /\ \E result \in EngineResults :
    /\ op' = "validateOrThrow"
    /\ args' = [data |-> "as given", engine |-> result]
    /\ ret' = validateOrThrow(result)

CallValidateMiddleware ==
  /\ Idle
  /\ \E shape \in Shapes, req \in Requests, nextThrows \in BOOLEAN :
       \E engine \in EngineOutcomes(shape) :
    /\ op' = "validateMiddleware"
    /\ args' = [shape |-> shape, req |-> req, engine |-> engine,
                nextThrows |-> nextThrows]
    /\ ret' = validateMiddleware(shape, req, engine, nextThrows)

Next ==
  \/ CallSanitizeObject
  \/ CallGenerateWhereClause
  \/ CallGeneratePagination
  \/ CallPaginateArray
  \/ CallPick
  \/ CallOmit
  \/ CallGetDisplayRange
  \/ CallBuildQueryString
  \/ CallGenerateUrl
  \/ CallBuildUrl
  \/ CallValidate
  \/ CallValidateOrThrow
  \/ CallValidateMiddleware
  \/ CallGeneratePageNumbers

Spec == Init /\ [][Next]_vars

(************************* generatePageNumbers *****************************)
IsPageNumbersCall == op = "generatePageNumbers"

GivenMaxVisible == Coalesce(args, "maxVisible", DefaultMaxVisible)

HasPage(pages, n) == \E i \in 1..Len(pages) : pages[i] = PageSlot(n)

EllipsisCount(pages) ==
  Cardinality({i \in 1..Len(pages) : pages[i].ellipsis})

\* C1 (as claimed): for every currentPage in 1..totalPages the returned
\* sequence has at most maxVisible slots, ellipsis markers included, and
\* holds page 1 and page totalPages.
C1_AtMostMaxVisibleSlots ==
  (IsPageNumbersCall /\ args.currentPage <= args.totalPages) =>
    /\ Len(ret) <= GivenMaxVisible
    /\ HasPage(ret, 1)
    /\ HasPage(ret, args.totalPages)

\* the pages lo..hi in order (empty when hi < lo)
PageRange(lo, hi) == [i \in 1..(hi - lo + 1) |-> PageSlot(lo + i - 1)]

HalfVisible == (GivenMaxVisible - 3) \div 2

NearStart == args.currentPage <= HalfVisible + 2

NearEnd == args.currentPage >= args.totalPages - HalfVisible - 1

\* C8: the output follows the window formulas: everything when
\* totalPages <= maxVisible; else near the start 1, 2..maxVisible-2,
\* ellipsis, last; else near the end 1, ellipsis,
\* totalPages-maxVisible+3..totalPages-1, last; else 1, ellipsis,
\* currentPage-halfVisible..currentPage+halfVisible, ellipsis, last; so one
\* ellipsis near the start or end and two in the middle.
C8_WindowFormulas ==
  IsPageNumbersCall =>
    IF args.totalPages <= GivenMaxVisible
    THEN ret = PageRange(1, args.totalPages) /\ EllipsisCount(ret) = 0
    ELSE IF NearStart
    THEN /\ ret = <<PageSlot(1)>> \o PageRange(2, GivenMaxVisible - 2)
                    \o <<EllipsisSlot, PageSlot(args.totalPages)>>
         /\ EllipsisCount(ret) = 1
    ELSE IF NearEnd
    THEN /\ ret = <<PageSlot(1), EllipsisSlot>>
                    \o PageRange(args.totalPages - GivenMaxVisible + 3,
                                 args.totalPages - 1)
                    \o <<PageSlot(args.totalPages)>>
         /\ EllipsisCount(ret) = 1
    ELSE /\ ret = <<PageSlot(1), EllipsisSlot>>
                    \o PageRange(args.currentPage - HalfVisible,
                                 args.currentPage + HalfVisible)
                    \o <<EllipsisSlot, PageSlot(args.totalPages)>>
         /\ EllipsisCount(ret) = 2

\* a middle window: generatePageNumbers(4, 7, 5) = 1 ... 3 4 5 ... 7
C8_Witness ==
  /\ IsPageNumbersCall
  /\ args.totalPages > GivenMaxVisible
  /\ ~NearStart
  /\ ~NearEnd
  /\ EllipsisCount(ret) = 2
  /\ HasPage(ret, args.currentPage)

(************************** generatePagination *****************************)
IsPaginationCall == op = "generatePagination"

\* C2: totalPages = max(ceil(total / limit), 1): it is 1 for total = 0 and
\* otherwise the one n with (n-1)*limit < total <= n*limit; total, page and
\* limit are echoed.
C2_TotalPages ==
  IsPaginationCall =>
    /\ ret.totalPages >= 1
    /\ args.total = 0 => ret.totalPages = 1
    /\ args.total > 0 =>
         /\ (ret.totalPages - 1) * args.limit < args.total
         /\ args.total <= ret.totalPages * args.limit
    /\ ret.total = args.total
    /\ ret.currentPage = args.page
    /\ ret.pageSize = args.limit

C2_Witness ==
  /\ IsPaginationCall
  /\ args.total = 0
  /\ ret.totalPages = 1

\* C6: hasNextPage = (page < totalPages), which is to say that records
\* remain after this page; hasPreviousPage = (page > 1); a page beyond
\* totalPages is returned unclamped with hasNextPage = false.
C6_NextAndPrevious ==
  IsPaginationCall =>
    /\ ret.hasNextPage = (args.page < ret.totalPages)
    /\ ret.hasNextPage = (args.page * args.limit < args.total)
    /\ ret.hasPreviousPage = (args.page > 1)
    /\ args.page > ret.totalPages =>
         ~ret.hasNextPage /\ ret.currentPage = args.page

C6_Witness ==
  /\ IsPaginationCall
  /\ args.page > ret.totalPages
  /\ ~ret.hasNextPage
  /\ ret.hasPreviousPage
  /\ ret.currentPage = args.page

(***************************** paginateArray *******************************)
IsPaginateArrayCall == op = "paginateArray"

ArgSkip == (args.page - 1) * args.limit

\* C7: data holds the elements at 0-based indices
\* [(page-1)*limit, page*limit) that exist, in order; it is empty when
\* (page-1)*limit >= length(items); pagination.total = length(items).
C7_SliceOfPage ==
  IsPaginateArrayCall =>
    /\ Len(ret.data) =
         (IF ArgSkip >= Len(args.items) THEN 0
          ELSE Min(args.limit, Len(args.items) - ArgSkip))
    /\ \A j \in 1..Len(ret.data) : ret.data[j] = args.items[ArgSkip + j]
    /\ ret.pagination.total = Len(args.items)

\* a last page that is only partly filled, after a first full page
C7_Witness ==
  /\ IsPaginateArrayCall
  /\ args.page > 1
  /\ ArgSkip < Len(args.items)
  /\ Len(args.items) < ArgSkip + args.limit
  /\ Len(ret.data) = Len(args.items) - ArgSkip

(*************************** generateWhereClause ***************************)
IsWhereClauseCall == op = "generateWhereClause"

MergedConfig == Spread(DEFAULT_PAGINATION_CONFIG, args.config)

\* C3 (as claimed): for every query.limit and every config the returned
\* limit lies in [minLimit, maxLimit] of the merged config.
C3_LimitWithinMergedBounds ==
  IsWhereClauseCall =>
    /\ MergedConfig.minLimit <= ret.limit
    /\ ret.limit <= MergedConfig.maxLimit

\* C3 (amended): the returned limit never exceeds maxLimit, and it is at
\* least minLimit whenever the merged config has minLimit <= maxLimit; with
\* minLimit > maxLimit the returned limit is maxLimit.
C3_LimitWithinConsistentBounds ==
  IsWhereClauseCall =>
    /\ ret.limit <= MergedConfig.maxLimit
    /\ MergedConfig.minLimit <= MergedConfig.maxLimit =>
         MergedConfig.minLimit <= ret.limit
    /\ MergedConfig.minLimit > MergedConfig.maxLimit =>
         ret.limit = MergedConfig.maxLimit

\* a requested limit below the floor of a consistent config is raised to it
C3_Witness ==
  /\ IsWhereClauseCall
  /\ Has(args.query, "limit")
  /\ MergedConfig.minLimit <= MergedConfig.maxLimit
  /\ args.query.limit < MergedConfig.minLimit
  /\ ret.limit = MergedConfig.minLimit

RequestedPage ==
  IF Has(args.query, "page") THEN args.query.page
  ELSE IF Has(args.config, "defaultPage") THEN args.config.defaultPage
  ELSE 1

\* C4: page is the requested page (query.page, else the default page)
\* raised to 1, and skip = (page - 1) * limit of the returned page and
\* limit, so skip >= 0 and skip is a multiple of the returned limit.
C4_PageAndSkip ==
  IsWhereClauseCall =>
    /\ ret.page = (IF RequestedPage >= 1 THEN RequestedPage ELSE 1)
    /\ ret.page >= 1
    /\ ret.skip = (ret.page - 1) * ret.limit
    /\ ret.skip >= 0
    /\ \E k \in 0..ret.page : ret.skip = k * ret.limit

C4_Witness ==
  /\ IsWhereClauseCall
  /\ Has(args.query, "page")
  /\ args.query.page < 1
  /\ ret.page = 1
  /\ ret.skip = 0

DefaultOrderBy ==
  [k \in {args.defaultSort.key} |-> args.defaultSort.value]

\* C5 (as claimed): orderBy is {[sortBy]: sortOrder} when both sortBy and
\* sortOrder are present, and the default sort in every other case.
C5_OrderByWhenBothPresent ==
  IsWhereClauseCall =>
    ret.orderBy =
      (IF Has(args.query, "sortBy") /\ Has(args.query, "sortOrder")
       THEN [k \in {args.query.sortBy} |-> args.query.sortOrder]
       ELSE DefaultOrderBy)

\* C5 (amended): orderBy has exactly one key; it is {[sortBy]: sortOrder}
\* when both are present and sortBy is not the empty string, and the whole
\* default sort in every other case, never a mix of the two.
C5_OrderByWhenBothNonEmpty ==
  IsWhereClauseCall =>
    /\ Cardinality(DOMAIN ret.orderBy) = 1
    /\ ret.orderBy =
         (IF /\ Has(args.query, "sortBy")
             /\ Has(args.query, "sortOrder")
             /\ args.query.sortBy # ""
          THEN [k \in {args.query.sortBy} |-> args.query.sortOrder]
          ELSE DefaultOrderBy)

\* only sortBy is given: the result is the default sort, key and direction
C5_Witness ==
  /\ IsWhereClauseCall
  /\ Has(args.query, "sortBy")
  /\ args.query.sortBy # ""
  /\ ~Has(args.query, "sortOrder")
  /\ ret.orderBy = DefaultOrderBy

(****************************** sanitizeObject *****************************)
IsSanitizeCall == op = "sanitizeObject"

ExcludeKeys == Coalesce(args.options, "excludeKeys", {})

IncludeKeys == Coalesce(args.options, "includeKeys", {})

\* the value matches a flag that is on (removeUndefined is on unless it is
\* given as false, the other four are off unless given as true)
MatchesActiveFlag(value) ==
  \/ value = VUndefined /\ Coalesce(args.options, "removeUndefined", TRUE)
  \/ value = VNull /\ Coalesce(args.options, "removeNull", FALSE)
  \/ value = VEmptyString /\ Coalesce(args.options, "removeEmptyString", FALSE)
  \/ value = VZero /\ Coalesce(args.options, "removeZero", FALSE)
  \/ value = VNaN /\ Coalesce(args.options, "removeNaN", FALSE)

ExpectedKept(key) ==
  IF key \in ExcludeKeys THEN TRUE
  ELSE IF IncludeKeys # {} /\ key \notin IncludeKeys THEN TRUE
  ELSE ~MatchesActiveFlag(args.obj[key])

C10_OnlyIncludedKeysAppear ==
  (IsSanitizeCall /\ IncludeKeys # {}) =>
    /\ DOMAIN ret.result \subseteq IncludeKeys
    /\ (/\ args.obj = DocObject
        /\ args.options = [removeNull |-> TRUE, includeKeys |-> {"a", "b"}])
       => ret.result = [a |-> VOne]

(******************************* pick / omit *******************************)
ListedSubsetOfOwn == KeySet(args.keys) \subseteq DOMAIN args.obj

SameValues(result, obj) == \A key \in DOMAIN result : result[key] = obj[key]

\* C11: for a key list K within keys(o), pick(o,K) has exactly the keys K,
\* omit(o,K) exactly keys(o) minus K, both with o's values; spreading the
\* two into one object gives back o; o is left as it was by either call.
C11_PickOmitComplementary ==
  /\ (op = "pick" /\ ListedSubsetOfOwn) =>
       /\ DOMAIN ret.result = KeySet(args.keys)
       /\ SameValues(ret.result, args.obj)
       /\ Spread(ret.result, omit(args.obj, args.keys)) = args.obj
       /\ ret.objAfter = args.obj
  /\ (op = "omit" /\ ListedSubsetOfOwn) =>
       /\ DOMAIN ret.result = DOMAIN args.obj \ KeySet(args.keys)
       /\ SameValues(ret.result, args.obj)
       /\ Spread(pick(args.obj, args.keys), ret.result) = args.obj
       /\ ret.objAfter = args.obj

\* omit of two different own keys from the six-key object
C11_Witness ==
  /\ op = "omit"
  /\ ListedSubsetOfOwn
  /\ Cardinality(KeySet(args.keys)) = 2
  /\ Cardinality(DOMAIN ret.result) = 4

(***************************** getDisplayRange *****************************)
IsDisplayRangeCall == op = "getDisplayRange"

PageBeyondData == (args.page - 1) * args.limit >= args.total

\* C17: from is (page-1)*limit + 1 and to is page*limit, each lowered to
\* total when it exceeds it; so from <= to always; a page entirely beyond
\* the data gives from = to = total, and total = 0 gives from = to = 0.
C17_DisplayRange ==
  IsDisplayRangeCall =>
    /\ ret.from = (IF (args.page - 1) * args.limit + 1 <= args.total
                   THEN (args.page - 1) * args.limit + 1 ELSE args.total)
    /\ ret.to = (IF args.page * args.limit <= args.total
                 THEN args.page * args.limit ELSE args.total)
    /\ ret.from <= ret.to
    /\ PageBeyondData => ret.from = args.total /\ ret.to = args.total
    /\ args.total = 0 => ret.from = 0 /\ ret.to = 0

\* a page past the end of a non-empty result set
C17_Witness ==
  /\ IsDisplayRangeCall
  /\ args.total > 0
  /\ (args.page - 1) * args.limit > args.total
  /\ ret.from = args.total
  /\ ret.to = args.total

(********************* paginateArray over all pages ************************)
RECURSIVE ConcatPages(_, _, _)
\* the data of pages 1..n of items, one after the other
ConcatPages(items, limit, n) ==
  IF n = 0 THEN <<>>
  ELSE ConcatPages(items, limit, n - 1) \o paginateArray(items, n, limit).data

\* C18: the data of pages 1..totalPages (totalPages as the metadata reports
\* it), taken in order, is items itself; and hasNextPage of a page is true
\* iff the following page has data.
C18_PagesPartitionItems ==
  IsPaginateArrayCall =>
    /\ ConcatPages(args.items, args.limit, ret.pagination.totalPages)
         = args.items
    /\ ret.pagination.hasNextPage =
         (paginateArray(args.items, args.page + 1, args.limit).data # <<>>)

\* several pages, the last one partly filled, asked for a page that has a
\* successor
C18_Witness ==
  /\ IsPaginateArrayCall
  /\ ret.pagination.totalPages >= 2
  /\ Len(args.items) % args.limit # 0
  /\ ret.pagination.hasNextPage
  /\ args.page = ret.pagination.totalPages - 1

(*************** generatePageNumbers with the default width ****************)
IsDefaultWidthCall ==
  /\ IsPageNumbersCall
  /\ GivenMaxVisible = DefaultMaxVisible
  /\ args.currentPage <= args.totalPages

\* C19: with maxVisible = 5 and currentPage in 1..totalPages the output
\* holds currentPage, its page numbers increase strictly, and every
\* ellipsis stands between two page numbers that differ by at least 2.
C19_DefaultWidthWellFormed ==
  IsDefaultWidthCall =>
    /\ HasPage(ret, args.currentPage)
    /\ \A i, j \in 1..Len(ret) :
         (i < j /\ ~ret[i].ellipsis /\ ~ret[j].ellipsis) =>
           ret[i].page < ret[j].page
    /\ \A i \in 1..Len(ret) :
         ret[i].ellipsis =>
           /\ 1 < i
           /\ i < Len(ret)
           /\ ~ret[i - 1].ellipsis
           /\ ~ret[i + 1].ellipsis
           /\ ret[i + 1].page - ret[i - 1].page >= 2

\* the first page that reaches the near-end window: 1 ... 4 5 6 for (4, 6)
C19_Witness ==
  /\ IsDefaultWidthCall
  /\ ~Has(args, "maxVisible")
  /\ args.totalPages > DefaultMaxVisible
  /\ args.currentPage = args.totalPages - 2
  /\ EllipsisCount(ret) = 1
  /\ ret[2].ellipsis

(****************************** buildQueryString ***************************)
IsQueryStringCall == op = "buildQueryString"

GivenEntries == IF args.queryParams = <<>> THEN <<>> ELSE args.queryParams[1]

\* the scalar values of the entries, arrays opened up, each with its key, in
\* entry order and array order
RECURSIVE Flatten(_)
Flatten(entries) ==
  IF entries = <<>> THEN <<>>
  ELSE LET key == Head(entries)[1]
           value == Head(entries)[2]
       IN (IF value.t = "array"
           THEN [i \in 1..Len(value.items) |-> <<key, value.items[i]>>]
           ELSE <<<<key, value>>>>)
          \o Flatten(Tail(entries))

IsSurvivor(kv) == kv[2].t # "undefined" /\ kv[2].t # "null"

Survivors == SelectSeq(Flatten(GivenEntries), IsSurvivor)

PairText(kv) == FormEncode(kv[1]) \o "=" \o FormEncode(ValueToString(kv[2]))

RECURSIVE JoinPairs(_)
JoinPairs(kvs) ==
  IF kvs = <<>> THEN ""
  ELSE IF Len(kvs) = 1 THEN PairText(kvs[1])
  ELSE JoinPairs(SubSeq(kvs, 1, Len(kvs) - 1)) \o "&" \o PairText(kvs[Len(kvs)])

CountChar(str, c) ==
  Cardinality({i \in 1..Len(str) : SubSeq(str, i, i) = c})

\* C12: the output is the key=value pairs of the non-null scalar values and
\* non-null array elements, in entry order and array order, joined by "&";
\* a null or undefined entry or element gives no pair, so there are as many
\* pairs as survivors; an absent mapping or one without survivors gives "".
C12_QueryStringPairs ==
  IsQueryStringCall =>
    /\ ret.value = JoinPairs(Survivors)
    /\ CountChar(ret.value, "=") = Len(Survivors)
    /\ Survivors # <<>> => CountChar(ret.value, "&") = Len(Survivors) - 1
    /\ Survivors = <<>> => ret.value = ""

\* an array with a null element between two entries: only the non-null
\* element and the scalar are emitted, in that order
C12_Witness ==
  /\ IsQueryStringCall
  /\ args.queryParams = <<<< <<"tags", Arr(<<Null, Str("a b")>>)>>,
                            <<"q", Num(1)>> >>>>
  /\ ret.value = "tags=a+b&q=1"

(******************************** generateUrl ******************************)
\* the base the documentation describes: the parameter when it supplies a
\* non-empty base, else the environment variable, else none
DocumentedBase ==
  IF Has(args, "baseUrl") /\ args.baseUrl # "" THEN args.baseUrl
  ELSE Coalesce(args.env, "API_URL", "")

QueryText == buildQueryString(args.queryParams)

QuerySuffix == IF QueryText = "" THEN "" ELSE "?" \o QueryText

\* C13 (as claimed): the base is the baseUrl parameter, else the environment
\* variable API_URL; the call throws only when neither gives a non-empty
\* base, and otherwise returns base + path (+ "?" + query string when that
\* is non-empty).
C13_BaseFromParameterOrEnvironment ==
  op = "generateUrl" =>
    /\ ret.threw = (DocumentedBase = "")
    /\ ~ret.threw => ret.value = DocumentedBase \o args.path \o QuerySuffix

(********************************** buildUrl *******************************)
\* the segments of a template "/seg/seg..."
RECURSIVE SegmentsOf(_)
SegmentsOf(path) ==
  IF path = "" THEN <<>>
  ELSE LET rest == SubSeq(path, 2, Len(path))
           slash == FirstIndexOf(rest, "/")
       IN IF slash = 0 THEN <<rest>>
          ELSE <<SubSeq(rest, 1, slash - 1)>>
                 \o SegmentsOf(SubSeq(rest, slash, Len(rest)))

ParamIndex(name) ==
  {i \in 1..Len(args.params) : args.params[i][1] = name}

\* a segment as the claim has it: a placeholder whose name is a key of
\* params becomes that key's value as a string, anything else stays
SubstitutedSegment(seg) ==
  IF SubSeq(seg, 1, 1) = ":" /\ ParamIndex(SubSeq(seg, 2, Len(seg))) # {}
  THEN ValueToString(
         args.params[CHOOSE i \in ParamIndex(SubSeq(seg, 2, Len(seg))) : TRUE][2])
  ELSE seg

RECURSIVE JoinSegments(_)
JoinSegments(segs) ==
  IF segs = <<>> THEN ""
  ELSE "/" \o SubstitutedSegment(Head(segs)) \o JoinSegments(Tail(segs))

\* C14 (as claimed): every placeholder whose name is a key of params is
\* replaced by the value as a string and every other placeholder is left
\* verbatim, also when a placeholder occurs twice or one name is a prefix
\* of another.
C14_EveryPlaceholderSubstituted ==
  (op = "buildUrl" /\ ~ret.threw) =>
    ret.value = args.baseUrl \o JoinSegments(SegmentsOf(args.path))
                  \o QuerySuffix

(************************* validate / validateOrThrow **********************)
EngineIssues == args.engine.error.errors

\* the dotted path of an issue, built from its last segment backwards
RECURSIVE DottedPath(_)
DottedPath(path) ==
  IF path = <<>> THEN ""
  ELSE IF Len(path) = 1 THEN ValueToString(path[1])
  ELSE DottedPath(SubSeq(path, 1, Len(path) - 1)) \o "."
         \o ValueToString(path[Len(path)])

\* errors has one item per engine issue, in the engine's order
MirrorsEngineIssues(errors) ==
  /\ Len(errors) = Len(EngineIssues)
  /\ \A i \in 1..Len(errors) :
       /\ errors[i].field = DottedPath(EngineIssues[i].path)
       /\ errors[i].message = EngineIssues[i].message

\* C15: validate returns {success: true, data: parsed output} exactly when
\* the engine accepts, else {success: false, errors} with one {field,
\* message} per engine error in the engine's order, field being the path
\* joined by "."; it never throws.  validateOrThrow throws on the same
\* failure an error with statusCode 400 and the same errors list.
C15_ValidateResult ==
  /\ op = "validate" =>
       /\ ~ret.threw
       /\ ret.value.success = args.engine.success
       /\ args.engine.success => ret.value.data = args.engine.data
       /\ ~args.engine.success => MirrorsEngineIssues(ret.value.errors)
  /\ op = "validateOrThrow" =>
       /\ ret.threw = ~args.engine.success
       /\ args.engine.success => ret.value = args.engine.data
       /\ ~args.engine.success =>
            /\ ret.error.statusCode = 400
            /\ MirrorsEngineIssues(ret.error.errors)
            /\ ret.error.errors = validate(args.engine).value.errors

\* two issues, the first one at the nested path items.0
C15_Witness ==
  /\ op = "validate"
  /\ ~args.engine.success
  /\ Len(EngineIssues) = 2
  /\ EngineIssues[1].path = <<Str("items"), Num(0)>>
  /\ EngineIssues[2].path = <<Str("email")>>
  /\ ret.value.errors[1].field = "items.0"
  /\ ret.value.errors[2].field = "email"

(***************************** validateMiddleware **************************)
IsMiddlewareCall == op = "validateMiddleware"

ValidationSucceeded == args.engine.outcome = "resolved"

ValidationFailed ==
  args.engine.outcome = "rejected" /\ Has(args.engine.error, "errors")

FirstNextCall == ret.nextCalls[1].argument

FailureReport ==
  /\ ret.req = args.req
  /\ FirstNextCall.kind = "ValidationError"
  /\ FirstNextCall.error.statusCode = 400
  /\ Len(FirstNextCall.error.errors) = Len(args.engine.error.errors)
  /\ \A i \in 1..Len(FirstNextCall.error.errors) :
       /\ FirstNextCall.error.errors[i].message
            = args.engine.error.errors[i].message
       /\ FirstNextCall.error.errors[i].field
            = DottedPath(args.engine.error.errors[i].path)

\* C16 (as claimed): on success every declared section of the request is
\* overwritten with its validated value, undeclared sections keep theirs,
\* and next() is called with no argument; on failure the request is left
\* unchanged and next gets a ValidationError with statusCode 400 and the
\* field errors in the engine's order.
C16_DeclaredSectionsOverwritten ==
  IsMiddlewareCall =>
    /\ ret.dataToValidate = [section \in args.shape |-> args.req[section]]
    /\ ValidationSucceeded =>
         /\ \A section \in args.shape :
              ret.req[section] = args.engine.validated[section]
         /\ \A section \in DOMAIN args.req \ args.shape :
              ret.req[section] = args.req[section]
         /\ FirstNextCall = NoArgument
    /\ ValidationFailed => FailureReport

\* C16 (amended): as claimed, except that a declared section whose
\* validated value is undefined is not overwritten: it keeps its original
\* value.
C16_DefinedSectionsOverwritten ==
  IsMiddlewareCall =>
    /\ ret.dataToValidate = [section \in args.shape |-> args.req[section]]
    /\ ValidationSucceeded =>
         /\ \A section \in args.shape :
              ret.req[section] =
                (IF args.engine.validated[section] # VUndefined
                 THEN args.engine.validated[section]
                 ELSE args.req[section])
         /\ \A section \in DOMAIN args.req \ args.shape :
              ret.req[section] = args.req[section]
         /\ FirstNextCall = NoArgument
    /\ ValidationFailed => FailureReport

\* body and query declared and validated, params not declared
C16_Witness ==
  /\ IsMiddlewareCall
  /\ ValidationSucceeded
  /\ args.shape = {"body", "query"}
  /\ args.req.body = "body as sent"
  /\ ret.req.body = "validated"
  /\ ret.req.query = "validated"
  /\ ret.req.params = "params as sent"
  /\ ret.nextCalls = <<NextCall(NoArgument)>>

\* C20 (as claimed): every invocation calls next exactly once, with no
\* argument after the request fields are written or with an error, also
\* when the call next() of the success path throws.
C20_NextCalledExactlyOnce ==
  IsMiddlewareCall => Len(ret.nextCalls) = 1

====
